---- MODULE Spec2Model ----
(***************************************************************************)
(* Task-management REST API (Express + Mongoose with an in-process Map     *)
(* fallback): credential store, token service, auth middleware, task      *)
(* store and the request handlers over them.                               *)
(*                                                                         *)
(* A request is handled in the steps its awaits cut it into: the auth      *)
(* middleware is one step, the route handler the next, and register and    *)
(* login are cut at their store calls.  Between two steps the clock may    *)
(* advance and the MongoDB connection may drop or come back.               *)
(***************************************************************************)
EXTENDS Integers, Sequences, FiniteSets, TLC

(* ------------------------------ bounds --------------------------------- *)
MaxTime   == 2   \* clock values 0..MaxTime
MaxUsers  == 2   \* user records created by POST /auth/register
MaxTasks  == 2   \* task records created by POST /tasks
MaxTokens == 2   \* distinct tokens handed out

(* ------------------------ program constants ---------------------------- *)
\* expiresIn: process.env.JWT_EXPIRE || '24h'; the clock unit is 24 hours
JWT_EXPIRE == 1
\* bcrypt cost factor of the in-memory createUser
SaltRounds == 12
\* let userCounter = 1 / let taskCounter = 1
FirstCounter == 1

NULL == 0 - 1    \* JS null for a Date-valued field

(* ------------------------------ values --------------------------------- *)
\* A MongoDB ObjectId (24 hex digits when a string) and a JS number.
ObjectId(n) == [t |-> "ObjectId", n |-> n]
Number(n)   == [t |-> "number", n |-> n]

Emails    == {"ann@x.com", "Ann@x.com", "root@x.com"}
Passwords == {"abc123", "xyz789"}
BadPassword == "abc"           \* fails registerSchema (min 6, letter+digit)
BadEmail == "ann"              \* fails Joi .email()
Statuses  == {"pending", "in-progress", "completed"}
BadStatus == "done"            \* fails Joi .valid(...)

EmptyMap == [k \in {} |-> k]
Put(map, k, v) == [kk \in DOMAIN map \cup {k} |-> IF kk = k THEN v ELSE map[kk]]
\* { password, ...rest } = obj  /  delete obj.password
Without(obj, f) == [g \in DOMAIN obj \ {f} |-> obj[g]]
\* Object.assign(obj, patch)
Assign(obj, patch) ==
  [g \in DOMAIN obj \cup DOMAIN patch |-> IF g \in DOMAIN patch THEN patch[g] ELSE obj[g]]
Has(obj, f) == f \in DOMAIN obj

\* String.prototype.toLowerCase on the e-mail addresses of the model
ToLowerCase(e) == IF e = "Ann@x.com" THEN "ann@x.com" ELSE e

\* bcrypt.hash(password, 12) and bcrypt.compare(input, hash)
BcryptHash(p) == [alg |-> "bcrypt", rounds |-> SaltRounds, of |-> p]
BcryptCompare(p, h) == h = BcryptHash(p)

(* ------------------------------ state ---------------------------------- *)
VARIABLES
  mongoUp,        \* the mongoose connection is usable
  now,            \* clock
  mongoUsers,     \* users collection: n |-> document with _id = ObjectId(n)
  inMemoryUsers,  \* routes/auth.js Map: lower-cased email |-> user object
  userCounter,    \* routes/auth.js userCounter
  mongoTasks,     \* tasks collection: n |-> document with _id = ObjectId(n)
  taskSeq,        \* number of ObjectIds generated for tasks
  inMemoryTasks,  \* routes/tasks.js Map: number |-> task object
  taskCounter,    \* routes/tasks.js taskCounter
  issued,         \* tokens handed out so far (what clients can present)
  req,            \* the request in flight and the step it has reached
  racing,         \* a second POST /register in flight beside it
  res,            \* the last response sent
  localStorage,   \* browser: localStorage.getItem('token')
  state,          \* browser: the state of AuthContext's reducer
  pathname,       \* browser: window.location.pathname
  href,           \* browser: the window.location.href assigned, not yet loaded
  checkAuth,      \* browser: where the mount effect's checkAuth stands
  pending,        \* browser: the calls of the session awaiting their response
  result          \* browser: what login / register returned last

serverVars == <<mongoUp, now, mongoUsers, inMemoryUsers, userCounter, mongoTasks,
                taskSeq, inMemoryTasks, taskCounter, issued, req, racing, res>>
clientVars == <<localStorage, state, pathname, href, checkAuth, pending, result>>
vars == <<serverVars, clientVars>>

stores == <<mongoUsers, inMemoryUsers, userCounter, mongoTasks, taskSeq,
            inMemoryTasks, taskCounter>>
userStores == <<mongoUsers, inMemoryUsers, userCounter>>
taskStores == <<mongoTasks, taskSeq, inMemoryTasks, taskCounter>>

Idle == [stage |-> "idle"]
NoResponse == [route |-> "none", status |-> 0, message |-> ""]

\* The persistent store outlives the process: it starts with the operator's
\* admin account (no route can create or promote an admin).
SeedAdmin ==
  [_id |-> ObjectId(1), name |-> "Root", email |-> "root@x.com",
   password |-> BcryptHash("abc123"), role |-> "admin", isActive |-> TRUE,
   lastLogin |-> NULL]

(* -------------------------- browser values ----------------------------- *)
NullRef == "null"                          \* JS null / undefined of a string
ClientTokens == {"tokenA", "tokenB"}       \* tokens the server hands out
ClientUsers == {"Ann", "Root"}             \* user objects the server returns
Pathnames == {"/", "/login", "/register", "/dashboard", "/tasks", "/profile"}
ProtectedPaths == {"/dashboard", "/tasks", "/profile"}

\* initialState that takes a stored token for a session
initialState_TrustsToken(storedToken) ==
  [user |-> NullRef, token |-> storedToken, isLoading |-> TRUE,
   isAuthenticated |-> storedToken # NullRef]

\* initialState of AuthContext, read when the page loads
initialState(storedToken) ==
  [user |-> NullRef, token |-> storedToken, isLoading |-> TRUE, isAuthenticated |-> FALSE]

NoResult == [of |-> "none", success |-> FALSE, message |-> NullRef]
Mounting == [pc |-> "mount", token |-> NullRef]

\* a page freshly loaded at "/" with an empty localStorage
ClientAtRest ==
  /\ localStorage = NullRef
  /\ state = initialState(NullRef)
  /\ pathname = "/"
  /\ href = NullRef
  /\ checkAuth = Mounting
  /\ pending = {}
  /\ result = NoResult

Init ==
  /\ ClientAtRest
  /\ mongoUp \in BOOLEAN
  /\ now = 0
  /\ mongoUsers = Put(EmptyMap, 1, SeedAdmin)
  /\ inMemoryUsers = EmptyMap
  /\ userCounter = FirstCounter
  /\ mongoTasks = EmptyMap
  /\ taskSeq = 0
  /\ inMemoryTasks = EmptyMap
  /\ taskCounter = FirstCounter
  /\ issued = {}
  /\ req = Idle
  /\ racing = Idle
  /\ res = NoResponse

(* --------------------------- environment ------------------------------- *)
Tick ==
  /\ now < MaxTime
  /\ now' = now + 1
  /\ UNCHANGED <<clientVars, racing, mongoUp, stores, issued, req, res>>

MongoDisconnect ==
  /\ mongoUp
  /\ mongoUp' = FALSE
  /\ UNCHANGED <<clientVars, racing, now, stores, issued, req, res>>

MongoReconnect ==
  /\ ~mongoUp
  /\ mongoUp' = TRUE
  /\ UNCHANGED <<clientVars, racing, now, stores, issued, req, res>>

(* --------------------------- token service ----------------------------- *)
\* jwt.sign(payload, JWT_SECRET, { expiresIn })
generateToken(payload, t) == [id |-> payload.id, exp |-> t + JWT_EXPIRE, sig |-> "valid"]

\* jwt.verify(token, JWT_SECRET): signature first, then expiry
JwtVerify(token, t) ==
  IF token.sig # "valid" THEN [error |-> "JsonWebTokenError"]
  ELSE IF t >= token.exp THEN [error |-> "TokenExpiredError"]
  ELSE [error |-> "none", id |-> token.id]

(* ------------------------ User model (mongoose) ------------------------ *)
\* userSchema.methods.getPublicProfile
getPublicProfile(doc) == Without(doc, "password")

\* userSchema.statics.findByEmail: the document or null (a set of <= 1)
UserFindByEmail(users, email) ==
  {n \in DOMAIN users : users[n].email = ToLowerCase(email)}

\* new User(userData) with the schema defaults and the pre-save hash
NewUserDoc(n, userData) ==
  [_id |-> ObjectId(n), name |-> userData.name, email |-> ToLowerCase(userData.email),
   password |-> BcryptHash(userData.password), role |-> "user", isActive |-> TRUE,
   lastLogin |-> NULL]

\* user.save() of a new document: rejected when the connection is down or
\* the unique e-mail index already holds the address
UserSaveThrows(up, users, userData) ==
  \/ ~up
  \/ UserFindByEmail(users, userData.email) # {}

\* User.findById(id): a CastError for an id that is no ObjectId, an error
\* when the connection is down
UserFindByIdThrows(up, id) == ~up \/ id.t # "ObjectId"

(* --------------------------- routes/auth.js ---------------------------- *)
\* findUserByEmail: [src |-> "mongo"|"memory"|"none", ...]
findUserByEmail(email) ==
  IF mongoUp
  THEN LET hit == UserFindByEmail(mongoUsers, email)
       IN IF hit = {} THEN [src |-> "none"]
          ELSE [src |-> "mongo", n |-> CHOOSE n \in hit : TRUE]
  ELSE IF ToLowerCase(email) \in DOMAIN inMemoryUsers
       THEN [src |-> "memory", key |-> ToLowerCase(email)]
       ELSE [src |-> "none"]

\* the user object findUserByEmail resolved to
FoundUser(found) ==
  IF found.src = "mongo" THEN mongoUsers[found.n] ELSE inMemoryUsers[found.key]

\* validate(registerSchema) / validate(loginSchema)
RegisterBodies ==
  {[name |-> "Ann", email |-> e, password |-> p] : e \in Emails, p \in {"abc123", BadPassword}}
LoginBodies ==
  {[email |-> e, password |-> p] : e \in Emails, p \in Passwords}
    \cup {[email |-> BadEmail, password |-> "abc123"]}
registerSchemaOk(body) == body.password # BadPassword
loginSchemaOk(body) == body.email # BadEmail

ValidationError(route) ==
  [route |-> route, status |-> 400, message |-> "Validation error",
   by |-> "validate", errors |-> <<"validation">>]

\* POST /register up to the existence check
RegisterFind(body) ==
  /\ req = Idle
  /\ IF ~registerSchemaOk(body)
     THEN /\ res' = ValidationError("register")
          /\ req' = Idle
     ELSE IF findUserByEmail(body.email).src # "none"
     THEN /\ res' = [route |-> "register", status |-> 400,
                     message |-> "User with this email already exists",
                     sent |-> body]
          /\ req' = Idle
     ELSE /\ res' = NoResponse
          /\ req' = [stage |-> "createUser", body |-> body]
  /\ UNCHANGED <<clientVars, racing, mongoUp, now, stores, issued>>

\* createUser returning the stored object as it is
publicProfile_KeepsPassword(user) == user

\* const { password, ...publicProfile } = user
publicProfile(user) == Without(user, "password")

\* the in-memory user object of createUser's catch branch
NewMemoryUser(userData) ==
  [_id |-> Number(userCounter), name |-> userData.name,
   email |-> ToLowerCase(userData.email), password |-> BcryptHash(userData.password),
   role |-> "user", isActive |-> TRUE]

\* POST /register from createUser to the response
RegisterCreate ==
  /\ req.stage = "createUser"
  /\ Cardinality(DOMAIN mongoUsers) - 1 + userCounter - FirstCounter < MaxUsers
  /\ LET body == req.body
         n == Cardinality(DOMAIN mongoUsers) + 1
         viaMongo == ~UserSaveThrows(mongoUp, mongoUsers, body)
         doc == NewUserDoc(n, body)
         mem == NewMemoryUser(body)
         user == IF viaMongo THEN getPublicProfile(doc) ELSE publicProfile(mem)
         token == generateToken([id |-> user._id], now)
     IN /\ Cardinality(issued \cup {token}) <= MaxTokens
        /\ IF viaMongo
           THEN /\ mongoUsers' = Put(mongoUsers, n, doc)
                /\ UNCHANGED <<inMemoryUsers, userCounter>>
           ELSE /\ inMemoryUsers' = Put(inMemoryUsers, mem.email, mem)
                /\ userCounter' = userCounter + 1
                /\ UNCHANGED mongoUsers
        /\ issued' = issued \cup {token}
        /\ res' = [route |-> "register", status |-> 201,
                   message |-> "User registered successfully",
                   sent |-> body, user |-> user, token |-> token]
  /\ req' = Idle
  /\ UNCHANGED <<clientVars, racing, mongoUp, now, taskStores>>

\* POST /register of a second client, up to the existence check, while the
\* first request waits at createUser
SecondRegisterFind(body) ==
  /\ req.stage = "createUser"
  /\ racing = Idle
  /\ IF ~registerSchemaOk(body)
     THEN /\ res' = ValidationError("register")
          /\ racing' = Idle
     ELSE IF findUserByEmail(body.email).src # "none"
     THEN /\ res' = [route |-> "register", status |-> 400,
                     message |-> "User with this email already exists",
                     sent |-> body]
          /\ racing' = Idle
     ELSE /\ res' = NoResponse
          /\ racing' = [stage |-> "createUser", body |-> body]
  /\ UNCHANGED <<clientVars, mongoUp, now, stores, issued, req>>

\* POST /register of the second client from createUser to the response
SecondRegisterCreate ==
  /\ racing.stage = "createUser"
  /\ Cardinality(DOMAIN mongoUsers) - 1 + userCounter - FirstCounter < MaxUsers
  /\ LET body == racing.body
         n == Cardinality(DOMAIN mongoUsers) + 1
         viaMongo == ~UserSaveThrows(mongoUp, mongoUsers, body)
         doc == NewUserDoc(n, body)
         mem == NewMemoryUser(body)
         user == IF viaMongo THEN getPublicProfile(doc) ELSE publicProfile(mem)
         token == generateToken([id |-> user._id], now)
     IN /\ Cardinality(issued \cup {token}) <= MaxTokens
        /\ IF viaMongo
           THEN /\ mongoUsers' = Put(mongoUsers, n, doc)
                /\ UNCHANGED <<inMemoryUsers, userCounter>>
           ELSE /\ inMemoryUsers' = Put(inMemoryUsers, mem.email, mem)
                /\ userCounter' = userCounter + 1
                /\ UNCHANGED mongoUsers
        /\ issued' = issued \cup {token}
        /\ res' = [route |-> "register", status |-> 201,
                   message |-> "User registered successfully",
                   sent |-> body, user |-> user, token |-> token]
  /\ racing' = Idle
  /\ UNCHANGED <<clientVars, mongoUp, now, taskStores, req>>

LoginFailure(status, message, body) ==
  [route |-> "login", status |-> status, message |-> message, sent |-> body]

LoginSuccess(body, user, token) ==
  [route |-> "login", status |-> 200, message |-> "Login successful",
   sent |-> body, user |-> user, token |-> token]

\* verifyPassword accepting any input
verifyPassword_AcceptsAll(inputPassword, hashedPassword) == TRUE

\* verifyPassword: user.matchPassword for a document, bcrypt.compare otherwise
verifyPassword(inputPassword, hashedPassword) == BcryptCompare(inputPassword, hashedPassword)

\* POST /login up to user.save() (a document) or to the response (in-memory)
LoginFind(body) ==
  /\ req = Idle
  /\ LET found == findUserByEmail(body.email)
     IN IF ~loginSchemaOk(body)
        THEN /\ res' = Assign(ValidationError("login"), [sent |-> body])
             /\ req' = Idle
             /\ UNCHANGED <<inMemoryUsers, issued>>
        ELSE IF found.src = "none"
        THEN /\ res' = LoginFailure(401, "Invalid email or password", body)
             /\ req' = Idle
             /\ UNCHANGED <<inMemoryUsers, issued>>
        ELSE LET user == FoundUser(found)
             IN IF ~user.isActive
                THEN /\ res' = LoginFailure(401, "Account is deactivated", body)
                     /\ req' = Idle
                     /\ UNCHANGED <<inMemoryUsers, issued>>
                ELSE IF ~verifyPassword(body.password, user.password)
                THEN /\ res' = LoginFailure(401, "Invalid email or password", body)
                     /\ req' = Idle
                     /\ UNCHANGED <<inMemoryUsers, issued>>
                ELSE IF found.src = "mongo"
                THEN /\ res' = NoResponse
                     /\ req' = [stage |-> "loginSave", body |-> body, n |-> found.n]
                     /\ UNCHANGED <<inMemoryUsers, issued>>
                ELSE LET logged == Assign(user, [lastLogin |-> now])
                         token == generateToken([id |-> user._id], now)
                     IN /\ Cardinality(issued \cup {token}) <= MaxTokens
                        /\ inMemoryUsers' = Put(inMemoryUsers, found.key, logged)
                        /\ issued' = issued \cup {token}
                        /\ res' = LoginSuccess(body, Without(logged, "password"), token)
                        /\ req' = Idle
  /\ UNCHANGED <<clientVars, racing, mongoUp, now, mongoUsers, userCounter, taskStores>>

\* POST /login from user.save() to the response
LoginSave ==
  /\ req.stage = "loginSave"
  /\ IF ~mongoUp
     THEN /\ res' = LoginFailure(500, "Server error during login", req.body)
          /\ UNCHANGED <<mongoUsers, issued>>
     ELSE LET saved == [mongoUsers[req.n] EXCEPT !.lastLogin = now]
              token == generateToken([id |-> saved._id], now)
          IN /\ Cardinality(issued \cup {token}) <= MaxTokens
             /\ mongoUsers' = [mongoUsers EXCEPT ![req.n] = saved]
             /\ issued' = issued \cup {token}
             /\ res' = LoginSuccess(req.body, Without(getPublicProfile(saved), "password"), token)
  /\ req' = Idle
  /\ UNCHANGED <<clientVars, racing, mongoUp, now, inMemoryUsers, userCounter, taskStores>>

(* ------------------------- middleware/auth.js -------------------------- *)
EmptyToken     == [id |-> Number(0), exp |-> 0, sig |-> "empty"]
MalformedToken == [id |-> Number(0), exp |-> 0, sig |-> "malformed"]
Forged(token)  == [token EXCEPT !.sig = "forged"]

NoHeader      == [present |-> FALSE, bearer |-> FALSE, token |-> EmptyToken]
BasicHeader   == [present |-> TRUE, bearer |-> FALSE, token |-> EmptyToken]
Bearer(token) == [present |-> TRUE, bearer |-> TRUE, token |-> token]

\* the Authorization headers a client can send
Headers ==
  {NoHeader, BasicHeader, Bearer(EmptyToken), Bearer(MalformedToken)}
    \cup {Bearer(t) : t \in issued} \cup {Bearer(Forged(t)) : t \in issued}

Refused(status, message) == [next |-> FALSE, status |-> status, message |-> message]

\* authenticate without the isActive test
authenticate_SkipsActive(h, up, users, t) ==
  IF ~h.present \/ ~h.bearer
  THEN Refused(401, "Access denied. No token provided.")
  ELSE IF h.token.sig = "empty"
  THEN Refused(401, "Access denied. Invalid token format.")
  ELSE LET decoded == JwtVerify(h.token, t)
       IN IF decoded.error = "JsonWebTokenError" THEN Refused(401, "Invalid token.")
          ELSE IF decoded.error = "TokenExpiredError" THEN Refused(401, "Token expired.")
          ELSE IF UserFindByIdThrows(up, decoded.id)
          THEN Refused(500, "Token verification failed.")
          ELSE IF decoded.id.n \notin DOMAIN users
          THEN Refused(401, "User not found or inactive.")
          ELSE LET user == users[decoded.id.n]
               IN [next |-> TRUE,
                   user |-> [id |-> user._id, email |-> user.email,
                             name |-> user.name, role |-> user.role]]

\* authenticate(req, res, next) against connection state up, collection
\* users and clock t
authenticate(h, up, users, t) ==
  IF ~h.present \/ ~h.bearer
  THEN Refused(401, "Access denied. No token provided.")
  ELSE IF h.token.sig = "empty"
  THEN Refused(401, "Access denied. Invalid token format.")
  ELSE LET decoded == JwtVerify(h.token, t)
       IN IF decoded.error = "JsonWebTokenError" THEN Refused(401, "Invalid token.")
          ELSE IF decoded.error = "TokenExpiredError" THEN Refused(401, "Token expired.")
          ELSE IF UserFindByIdThrows(up, decoded.id)
          THEN Refused(500, "Token verification failed.")
          ELSE IF decoded.id.n \notin DOMAIN users \/ ~users[decoded.id.n].isActive
          THEN Refused(401, "User not found or inactive.")
          ELSE LET user == users[decoded.id.n]
               IN [next |-> TRUE,
                   user |-> [id |-> user._id, email |-> user.email,
                             name |-> user.name, role |-> user.role]]

\* the auth middleware in front of every protected route; the route is the
\* handler that takes the request next
Authenticate(h) ==
  /\ req = Idle
  /\ LET a == authenticate(h, mongoUp, mongoUsers, now)
     IN IF a.next
        THEN /\ req' = [stage |-> "handler", user |-> a.user, header |-> h]
             /\ res' = NoResponse
        ELSE /\ req' = Idle
             /\ res' = [route |-> "protected", status |-> a.status,
                        message |-> a.message, by |-> "authenticate"]
  /\ UNCHANGED <<clientVars, racing, mongoUp, now, stores, issued>>

\* next(): the request has passed authenticate and reaches its route
AtHandler == req.stage = "handler"

Reply(route, status, message) ==
  [route |-> route, status |-> status, message |-> message, by |-> "handler",
   caller |-> req.user.id]

\* POST /api/auth/logout
PostLogout ==
  /\ AtHandler
  /\ res' = Reply("logout", 200, "Logged out successfully")
  /\ req' = Idle
  /\ UNCHANGED <<clientVars, racing, mongoUp, now, stores, issued>>

\* GET /api/auth/verify
GetVerify ==
  /\ AtHandler
  /\ res' = Assign(Reply("verify", 200, "Token is valid"), [user |-> req.user])
  /\ req' = Idle
  /\ UNCHANGED <<clientVars, racing, mongoUp, now, stores, issued>>

\* GET /api/auth/me
GetMe ==
  /\ AtHandler
  /\ LET found == findUserByEmail(req.user.email)
     IN IF found.src = "none"
        THEN res' = Reply("me", 404, "User not found")
        ELSE res' = Assign(Reply("me", 200, ""),
                           [user |-> Without(IF found.src = "mongo"
                                             THEN getPublicProfile(FoundUser(found))
                                             ELSE FoundUser(found), "password")])
  /\ req' = Idle
  /\ UNCHANGED <<clientVars, racing, mongoUp, now, stores, issued>>

(* --------------------------- routes/users.js --------------------------- *)
\* the Map of routes/users.js: a second Map, which no code writes to
usersInMemoryUsers == EmptyMap

\* findUserById: the user object or null (a set of <= 1)
findUserById(id) ==
  IF ~UserFindByIdThrows(mongoUp, id)
  THEN {mongoUsers[n] : n \in {m \in DOMAIN mongoUsers : m = id.n}}
  ELSE {usersInMemoryUsers[k] : k \in {e \in DOMAIN usersInMemoryUsers :
                                         usersInMemoryUsers[e]._id = id}}

\* updateUser reaches the collection (User.findByIdAndUpdate finds a document)
UpdatesMongo(id) == ~UserFindByIdThrows(mongoUp, id) /\ id.n \in DOMAIN mongoUsers

\* updateUser: the public profile returned, or null (a set of <= 1)
updateUserResult(id, updateData) ==
  IF ~UserFindByIdThrows(mongoUp, id)
  THEN {getPublicProfile(Assign(mongoUsers[n], updateData)) :
          n \in {m \in DOMAIN mongoUsers : m = id.n}}
  ELSE {Without(Assign(usersInMemoryUsers[k], updateData), "password") :
          k \in {e \in DOMAIN usersInMemoryUsers : usersInMemoryUsers[e]._id = id}}

\* updateUser: the collection afterwards
updateUserStore(id, updateData) ==
  IF UpdatesMongo(id)
  THEN [mongoUsers EXCEPT ![id.n] = Assign(mongoUsers[id.n], updateData)]
  ELSE mongoUsers

\* GET /api/users/profile
GetProfile ==
  /\ AtHandler
  /\ LET user == findUserById(req.user.id)
     IN IF user = {}
        THEN res' = Reply("profile.get", 404, "User not found")
        ELSE res' = Assign(Reply("profile.get", 200, ""),
                           [user |-> Without(getPublicProfile(CHOOSE u \in user : TRUE),
                                             "password")])
  /\ req' = Idle
  /\ UNCHANGED <<clientVars, racing, mongoUp, now, stores, issued>>

\* validate(updateProfileSchema): name of 2..50 characters
ProfileBodies == {EmptyMap, [name |-> "Ann B"], [name |-> "A"]}
updateProfileSchemaOk(body) == Has(body, "name") => body.name # "A"

\* PUT /api/users/profile
PutProfile(body) ==
  /\ AtHandler
  /\ IF ~updateProfileSchemaOk(body)
     THEN /\ res' = ValidationError("profile.put")
          /\ UNCHANGED mongoUsers
     ELSE LET updated == updateUserResult(req.user.id, body)
          IN /\ mongoUsers' = updateUserStore(req.user.id, body)
             /\ IF updated = {}
                THEN res' = Reply("profile.put", 404, "User not found")
                ELSE res' = Assign(Reply("profile.put", 200, "Profile updated successfully"),
                                   [user |-> CHOOSE u \in updated : TRUE])
  /\ req' = Idle
  /\ UNCHANGED <<clientVars, racing, mongoUp, now, inMemoryUsers, userCounter, taskStores, issued>>

\* DELETE /profile that removes the caller's tasks with the account
DeleteProfile_Cascade ==
  /\ AtHandler
  /\ LET updated == updateUserResult(req.user.id, [isActive |-> FALSE])
     IN /\ mongoUsers' = updateUserStore(req.user.id, [isActive |-> FALSE])
        /\ IF updated = {}
           THEN res' = Reply("profile.delete", 404, "User not found")
           ELSE res' = Reply("profile.delete", 200, "Account deactivated successfully")
  /\ mongoTasks' = [n \in {m \in DOMAIN mongoTasks : mongoTasks[m].user # req.user.id}
                      |-> mongoTasks[n]]
  /\ req' = Idle
  /\ UNCHANGED <<clientVars, racing, mongoUp, now, inMemoryUsers, userCounter, taskSeq,
                 inMemoryTasks, taskCounter, issued>>

\* DELETE /api/users/profile
DeleteProfile ==
  /\ AtHandler
  /\ LET updated == updateUserResult(req.user.id, [isActive |-> FALSE])
     IN /\ mongoUsers' = updateUserStore(req.user.id, [isActive |-> FALSE])
        /\ IF updated = {}
           THEN res' = Reply("profile.delete", 404, "User not found")
           ELSE res' = Reply("profile.delete", 200, "Account deactivated successfully")
  /\ req' = Idle
  /\ UNCHANGED <<clientVars, racing, mongoUp, now, inMemoryUsers, userCounter, taskStores, issued>>

\* authorize letting every role through
authorize_AnyRole(roles, user) == TRUE

\* authorize(...roles)
authorize(roles, user) == user.role \in roles

\* GET /api/users
GetUsers ==
  /\ AtHandler
  /\ IF ~authorize({"admin"}, req.user)
     THEN res' = [route |-> "users.list", status |-> 403,
                  message |-> "Access denied. Insufficient permissions.",
                  by |-> "authorize", caller |-> req.user.id]
     ELSE LET users == IF mongoUp
                       THEN {Without(mongoUsers[n], "password") :
                               n \in {m \in DOMAIN mongoUsers : mongoUsers[m].isActive}}
                       ELSE {Without(usersInMemoryUsers[k], "password") :
                               k \in {e \in DOMAIN usersInMemoryUsers :
                                        usersInMemoryUsers[e].isActive}}
          IN res' = Assign(Reply("users.list", 200, ""),
                           [users |-> users, total |-> Cardinality(users)])
  /\ req' = Idle
  /\ UNCHANGED <<clientVars, racing, mongoUp, now, stores, issued>>

(* ----------------------------- models/Task.js -------------------------- *)
\* new Task(taskData): the schema defaults under the request's fields
NewTaskDoc(n, taskData) ==
  Assign([_id |-> ObjectId(n), status |-> "pending", priority |-> "medium",
          completedAt |-> NULL, createdAt |-> now], taskData)

\* taskSchema.pre('save')
preSave(doc, t) ==
  LET set == IF doc.status = "completed" /\ doc.completedAt = NULL
             THEN [doc EXCEPT !.completedAt = t] ELSE doc
  IN IF set.status # "completed" /\ set.completedAt # NULL
     THEN [set EXCEPT !.completedAt = NULL] ELSE set

\* task.save(): fails when the connection is down or user is no ObjectId
TaskSaveThrows(up, taskData) == ~up \/ taskData.user.t # "ObjectId"

\* a query with { _id: taskId }: a CastError unless taskId is an ObjectId
TaskQueryThrows(up, taskId) == ~up \/ taskId.t # "ObjectId"

\* the query without its user condition
TaskFindOne_AnyOwner(tasks, taskId, userId) ==
  {n \in DOMAIN tasks : tasks[n]._id = taskId}

\* Task.findOne({ _id: taskId, user: userId }): the keys matching
TaskFindOne(tasks, taskId, userId) ==
  {n \in DOMAIN tasks : tasks[n]._id = taskId /\ tasks[n].user = userId}

\* Task.getUserTasks(userId): this.find({ user: userId })
getUserTasks(tasks, userId) == {tasks[n] : n \in {m \in DOMAIN tasks : tasks[m].user = userId}}

\* Task.findOneAndUpdate(query, updateData, { new: true }): the document
\* with the fields of updateData set; no save middleware runs
findOneAndUpdate(doc, updateData) == Assign(doc, updateData)

(* --------------------------- routes/tasks.js --------------------------- *)
\* task.user == userId: two ObjectId objects are equal only when they are
\* the same object, and the stored one came from another request's
\* document; a number compares by value
LooseEq(stored, fresh) ==
  IF stored.t = "ObjectId" /\ fresh.t = "ObjectId" THEN FALSE ELSE stored = fresh

\* parseInt(taskId): the decimal prefix of the parameter; that of a 24-digit
\* hex string lies outside the keys the Map holds here
ParseInt(taskId) == IF taskId.t = "number" THEN taskId.n ELSE 0

\* the ids a client can put in /tasks/:id
TaskIdParams == {ObjectId(n) : n \in 1..MaxTasks} \cup {Number(n) : n \in 1..MaxTasks}

\* the keys createTaskSchema and updateTaskSchema list; Joi.object refuses
\* every other key (allowUnknown is off in schema.validate(req.body))
TaskSchemaKeys ==
  {"title", "description", "status", "priority", "category", "dueDate", "tags"}
\* fields of a task record that neither schema lists
UnlistedFields == {[user |-> ObjectId(1)], [_id |-> ObjectId(1)], [completedAt |-> 0]}

\* request bodies of POST /tasks: with and without a title and a status, and
\* with a field the schema does not list
CreateBodies ==
  {EmptyMap, [title |-> "Write spec"]}
    \cup {[title |-> "Write spec", status |-> x] : x \in Statuses \cup {BadStatus}}
    \cup {Assign([title |-> "Write spec"], f) : f \in UnlistedFields}
\* request bodies of PUT /tasks/:id: no field, a title only, a status only,
\* a field the schema does not list
UpdateBodies ==
  {EmptyMap, [title |-> "Write spec"]}
    \cup {[status |-> x] : x \in Statuses \cup {BadStatus}}
    \cup UnlistedFields

\* createTaskSchema accepting keys it does not list
createTaskSchemaOk_AllowUnknown(body) ==
  Has(body, "title") /\ (Has(body, "status") => body.status \in Statuses)

\* createTaskSchema / updateTaskSchema
createTaskSchemaOk(body) ==
  /\ DOMAIN body \subseteq TaskSchemaKeys
  /\ Has(body, "title")
  /\ Has(body, "status") => body.status \in Statuses

\* updateTaskSchema letting every status through
updateTaskSchemaOk_AnyStatus(body) == TRUE

updateTaskSchemaOk(body) ==
  /\ DOMAIN body \subseteq TaskSchemaKeys
  /\ Has(body, "status") => body.status \in Statuses

\* the in-memory task of createTask's catch branch
NewMemoryTask(taskData) ==
  Assign(Assign([_id |-> Number(taskCounter)], taskData), [createdAt |-> now])

\* POST /api/tasks
PostTask(body) ==
  /\ AtHandler
  /\ IF ~createTaskSchemaOk(body)
     THEN /\ res' = ValidationError("tasks.post")
          /\ UNCHANGED taskStores
     ELSE LET taskData == Assign(body, [user |-> req.user.id])
          IN /\ taskSeq + taskCounter - FirstCounter < MaxTasks
             /\ IF ~TaskSaveThrows(mongoUp, taskData)
                THEN LET task == preSave(NewTaskDoc(taskSeq + 1, taskData), now)
                     IN /\ mongoTasks' = Put(mongoTasks, taskSeq + 1, task)
                        /\ taskSeq' = taskSeq + 1
                        /\ res' = Assign(Reply("tasks.post", 201, "Task created successfully"),
                                         [task |-> task])
                        /\ UNCHANGED <<inMemoryTasks, taskCounter>>
                ELSE LET task == NewMemoryTask(taskData)
                     IN /\ inMemoryTasks' = Put(inMemoryTasks, task._id.n, task)
                        /\ taskCounter' = taskCounter + 1
                        /\ res' = Assign(Reply("tasks.post", 201, "Task created successfully"),
                                         [task |-> task])
                        /\ UNCHANGED <<mongoTasks, taskSeq>>
  /\ req' = Idle
  /\ UNCHANGED <<clientVars, racing, mongoUp, now, userStores, issued>>

\* inMemoryTasks.get(parseInt(taskId)) with the owner test: the keys matching
MemoryFind(taskId, userId) ==
  {k \in DOMAIN inMemoryTasks : k = ParseInt(taskId) /\ LooseEq(inMemoryTasks[k].user, userId)}

\* findTaskById: the task or null (a set of <= 1)
findTaskById(taskId, userId) ==
  IF ~TaskQueryThrows(mongoUp, taskId)
  THEN {mongoTasks[n] : n \in TaskFindOne(mongoTasks, taskId, userId)}
  ELSE {inMemoryTasks[k] : k \in MemoryFind(taskId, userId)}

NotFound(route, taskId) == Assign(Reply(route, 404, "Task not found"), [id |-> taskId])
Found(route, message, taskId, task) ==
  Assign(Reply(route, 200, message), [id |-> taskId, task |-> task])

\* GET /api/tasks/:id
GetTask(taskId) ==
  /\ AtHandler
  /\ LET task == findTaskById(taskId, req.user.id)
     IN IF task = {}
        THEN res' = NotFound("tasks.get", taskId)
        ELSE res' = Found("tasks.get", "", taskId, CHOOSE x \in task : TRUE)
  /\ req' = Idle
  /\ UNCHANGED <<clientVars, racing, mongoUp, now, stores, issued>>

\* the completion logic of updateTask's catch branch
MemoryUpdate(task, updateData) ==
  LET merged == Assign(task, updateData)
      isSet == Has(merged, "completedAt") /\ merged.completedAt # NULL
      toCompleted == Has(updateData, "status") /\ updateData.status = "completed"
  IN IF toCompleted /\ ~isSet THEN Assign(merged, [completedAt |-> now])
     ELSE IF ~toCompleted /\ isSet THEN Assign(merged, [completedAt |-> NULL])
     ELSE merged

\* PUT /api/tasks/:id
PutTask(taskId, body) ==
  /\ AtHandler
  /\ IF ~updateTaskSchemaOk(body)
     THEN /\ res' = ValidationError("tasks.put")
          /\ UNCHANGED <<mongoTasks, inMemoryTasks>>
     ELSE IF ~TaskQueryThrows(mongoUp, taskId)
     THEN LET hit == TaskFindOne(mongoTasks, taskId, req.user.id)
          IN IF hit = {}
             THEN /\ res' = NotFound("tasks.put", taskId)
                  /\ UNCHANGED <<mongoTasks, inMemoryTasks>>
             ELSE LET n == CHOOSE x \in hit : TRUE
                      task == findOneAndUpdate(mongoTasks[n], body)
                  IN /\ mongoTasks' = [mongoTasks EXCEPT ![n] = task]
                     /\ res' = Found("tasks.put", "Task updated successfully", taskId, task)
                     /\ UNCHANGED inMemoryTasks
     ELSE LET hit == MemoryFind(taskId, req.user.id)
          IN IF hit = {}
             THEN /\ res' = NotFound("tasks.put", taskId)
                  /\ UNCHANGED <<mongoTasks, inMemoryTasks>>
             ELSE LET k == CHOOSE x \in hit : TRUE
                      task == MemoryUpdate(inMemoryTasks[k], body)
                  IN /\ inMemoryTasks' = [inMemoryTasks EXCEPT ![k] = task]
                     /\ res' = Found("tasks.put", "Task updated successfully", taskId, task)
                     /\ UNCHANGED mongoTasks
  /\ req' = Idle
  /\ UNCHANGED <<clientVars, racing, mongoUp, now, userStores, taskSeq, taskCounter, issued>>

\* DELETE /:id that removes every task of the caller with the one named
DeleteTask_AllOfOwner(taskId) ==
  /\ AtHandler
  /\ IF ~TaskQueryThrows(mongoUp, taskId)
     THEN LET hit == TaskFindOne(mongoTasks, taskId, req.user.id)
              gone == IF hit = {} THEN {}
                      ELSE {n \in DOMAIN mongoTasks : mongoTasks[n].user = req.user.id}
          IN /\ mongoTasks' = [n \in DOMAIN mongoTasks \ gone |-> mongoTasks[n]]
             /\ res' = IF hit = {} THEN NotFound("tasks.delete", taskId)
                       ELSE Assign(Reply("tasks.delete", 200, "Task deleted successfully"),
                                   [id |-> taskId])
             /\ UNCHANGED inMemoryTasks
     ELSE LET hit == MemoryFind(taskId, req.user.id)
          IN /\ inMemoryTasks' = [k \in DOMAIN inMemoryTasks \ hit |-> inMemoryTasks[k]]
             /\ res' = IF hit = {} THEN NotFound("tasks.delete", taskId)
                       ELSE Assign(Reply("tasks.delete", 200, "Task deleted successfully"),
                                   [id |-> taskId])
             /\ UNCHANGED mongoTasks
  /\ req' = Idle
  /\ UNCHANGED <<clientVars, racing, mongoUp, now, userStores, taskSeq, taskCounter, issued>>

\* DELETE /api/tasks/:id
DeleteTask(taskId) ==
  /\ AtHandler
  /\ IF ~TaskQueryThrows(mongoUp, taskId)
     THEN LET hit == TaskFindOne(mongoTasks, taskId, req.user.id)
          IN /\ mongoTasks' = [n \in DOMAIN mongoTasks \ hit |-> mongoTasks[n]]
             /\ res' = IF hit = {} THEN NotFound("tasks.delete", taskId)
                       ELSE Assign(Reply("tasks.delete", 200, "Task deleted successfully"),
                                   [id |-> taskId])
             /\ UNCHANGED inMemoryTasks
     ELSE LET hit == MemoryFind(taskId, req.user.id)
          IN /\ inMemoryTasks' = [k \in DOMAIN inMemoryTasks \ hit |-> inMemoryTasks[k]]
             /\ res' = IF hit = {} THEN NotFound("tasks.delete", taskId)
                       ELSE Assign(Reply("tasks.delete", 200, "Task deleted successfully"),
                                   [id |-> taskId])
             /\ UNCHANGED mongoTasks
  /\ req' = Idle
  /\ UNCHANGED <<clientVars, racing, mongoUp, now, userStores, taskSeq, taskCounter, issued>>

\* findUserTasks without a filter: the tasks found
findUserTasks(userId) ==
  IF mongoUp
  THEN getUserTasks(mongoTasks, userId)
  ELSE {inMemoryTasks[k] : k \in {j \in DOMAIN inMemoryTasks :
                                     LooseEq(inMemoryTasks[j].user, userId)}}

\* tasks.filter(task => task.status === s).length
CountStatus(tasks, s) == Cardinality({x \in tasks : Has(x, "status") /\ x.status = s})

\* Math.round(num / den) of a non-negative quotient
MathRound(num, den) == (2 * num + den) \div (2 * den)

\* the stats object of GET /stats/summary
TaskStats(tasks) ==
  LET total == Cardinality(tasks)
      completed == CountStatus(tasks, "completed")
  IN [total |-> total, completed |-> completed,
      inProgress |-> CountStatus(tasks, "in-progress"),
      pending |-> CountStatus(tasks, "pending"),
      completionRate |-> IF total > 0 THEN MathRound(completed * 100, total) ELSE 0]

\* GET /api/tasks/stats/summary
GetStats ==
  /\ AtHandler
  /\ res' = Assign(Reply("tasks.stats", 200, ""),
                   [stats |-> TaskStats(findUserTasks(req.user.id))])
  /\ req' = Idle
  /\ UNCHANGED <<clientVars, racing, mongoUp, now, stores, issued>>

\* the list left by the fallback's filters: the status filter of
\* getUserTasks' query and of findUserTasks' catch branch
StatusFilter(tasks, filter) ==
  IF Has(filter, "status")
  THEN {x \in tasks : Has(x, "status") /\ x.status = filter.status}
  ELSE tasks

\* the orders of a set of tasks that are descending in createdAt
SortedLists(tasks) ==
  {L \in [1..Cardinality(tasks) -> tasks] :
     /\ \A i, j \in DOMAIN L : i # j => L[i] # L[j]
     /\ \A i, j \in DOMAIN L : i < j => L[i].createdAt >= L[j].createdAt}

\* Array.prototype.sort is stable: tasks of one createdAt keep the order of
\* the Map, which is the order of their keys
StableSorted(tasks) ==
  CHOOSE L \in SortedLists(tasks) :
    \A i, j \in DOMAIN L :
      (i < j /\ L[i].createdAt = L[j].createdAt) => L[i]._id.n < L[j]._id.n

\* findUserTasks(userId, filter): the lists it can return; the order
\* .sort({ createdAt: -1 }) gives documents of one createdAt is not fixed
UserTaskLists(userId, filter) ==
  IF mongoUp
  THEN SortedLists(StatusFilter(getUserTasks(mongoTasks, userId), filter))
  ELSE {StableSorted(StatusFilter(findUserTasks(userId), filter))}

\* { status, page = 1, limit = 10 } = req.query
DefaultPage == 1
DefaultLimit == 10
\* query strings of GET /tasks: status absent ("") or given, page and limit
\* absent or decimal numbers >= 1
TaskQueries ==
  [status : {"", "pending", "completed"}, page : {DefaultPage, 2, 3},
   limit : {1, 2, DefaultLimit}]
\* const filter = {}; if (status) filter.status = status
QueryFilter(query) == IF query.status # "" THEN [status |-> query.status] ELSE EmptyMap

\* slice that starts at the head of the list whatever startIndex is
Slice_FromHead(L, startIndex, endIndex) ==
  SubSeq(L, 1, IF endIndex < Len(L) THEN endIndex ELSE Len(L))

\* tasks.slice(startIndex, endIndex) for 0 <= startIndex <= endIndex
Slice(L, startIndex, endIndex) ==
  SubSeq(L, startIndex + 1, IF endIndex < Len(L) THEN endIndex ELSE Len(L))

\* Math.ceil(num / den) of a non-negative quotient
MathCeil(num, den) == (num + den - 1) \div den

\* GET /api/tasks, findUserTasks having returned the list tasks
GetTasks(query, tasks) ==
  /\ AtHandler
  /\ tasks \in UserTaskLists(req.user.id, QueryFilter(query))
  /\ LET startIndex == (query.page - 1) * query.limit
         endIndex == query.page * query.limit
         paginatedTasks == Slice(tasks, startIndex, endIndex)
     IN res' = Assign(Reply("tasks.list", 200, ""),
                      [tasks |-> paginatedTasks,
                       pagination |-> [current |-> query.page,
                                       total |-> MathCeil(Len(tasks), query.limit),
                                       count |-> Len(paginatedTasks),
                                       totalTasks |-> Len(tasks)]])
  /\ req' = Idle
  /\ UNCHANGED <<clientVars, racing, mongoUp, now, stores, issued>>

(* ----------------------- context/AuthContext.jsx ----------------------- *)
LOGIN_SUCCESS(user, token) == [type |-> "LOGIN_SUCCESS", user |-> user, token |-> token]
LOGOUT == [type |-> "LOGOUT"]
SET_LOADING(payload) == [type |-> "SET_LOADING", payload |-> payload]
UPDATE_USER(payload) == [type |-> "UPDATE_USER", payload |-> payload]
AUTH_ERROR == [type |-> "AUTH_ERROR"]

\* authReducer whose AUTH_ERROR leaves isLoading as it is
authReducer_ErrorKeepsLoading(st, action) ==
  CASE action.type = "LOGIN_SUCCESS" ->
         [st EXCEPT !.user = action.user, !.token = action.token,
                    !.isAuthenticated = TRUE, !.isLoading = FALSE]
    [] action.type = "LOGOUT" ->
         [st EXCEPT !.user = NullRef, !.token = NullRef,
                    !.isAuthenticated = FALSE, !.isLoading = FALSE]
    [] action.type = "SET_LOADING" -> [st EXCEPT !.isLoading = action.payload]
    [] action.type = "UPDATE_USER" -> [st EXCEPT !.user = action.payload]
    [] action.type = "AUTH_ERROR" ->
         [st EXCEPT !.user = NullRef, !.token = NullRef, !.isAuthenticated = FALSE]
    [] OTHER -> st

\* authReducer: the state it returns
authReducer(st, action) ==
  CASE action.type = "LOGIN_SUCCESS" ->
         [st EXCEPT !.user = action.user, !.token = action.token,
                    !.isAuthenticated = TRUE, !.isLoading = FALSE]
    [] action.type = "LOGOUT" ->
         [st EXCEPT !.user = NullRef, !.token = NullRef,
                    !.isAuthenticated = FALSE, !.isLoading = FALSE]
    [] action.type = "SET_LOADING" -> [st EXCEPT !.isLoading = action.payload]
    [] action.type = "UPDATE_USER" -> [st EXCEPT !.user = action.payload]
    [] action.type = "AUTH_ERROR" ->
         [st EXCEPT !.user = NullRef, !.token = NullRef,
                    !.isAuthenticated = FALSE, !.isLoading = FALSE]
    [] OTHER -> st

\* the reducer leaving the stored token alone
reducerStorage_KeepsToken(stored, action) == stored

\* authReducer: localStorage.removeItem('token') of LOGOUT and AUTH_ERROR
reducerStorage(stored, action) ==
  IF action.type \in {"LOGOUT", "AUTH_ERROR"} THEN NullRef ELSE stored

(* --------------------------- services/api.js --------------------------- *)
\* what a call comes back with: a 2xx body with success true ("ok") or
\* false ("refused"), an error status with the server's message, or no
\* response at all ("network")
Ok(user, token) == [kind |-> "ok", user |-> user, token |-> token]
RefusedBody(message) == [kind |-> "refused", message |-> message]
ErrorStatus(status, message) == [kind |-> "error", status |-> status, message |-> message]
NetworkError == [kind |-> "network"]

VerifyOutcomes ==
  {Ok(u, NullRef) : u \in ClientUsers}
    \cup {RefusedBody(NullRef), ErrorStatus(401, "Token expired."),
          ErrorStatus(500, "Token verification failed."), NetworkError}
LoginOutcomes ==
  {Ok(u, t) : u \in ClientUsers, t \in ClientTokens}
    \cup {RefusedBody("Login refused"), ErrorStatus(401, "Invalid email or password"),
          ErrorStatus(401, "Account is deactivated"),
          ErrorStatus(500, "Server error during login"), NetworkError}
RegisterOutcomes ==
  {Ok(u, t) : u \in ClientUsers, t \in ClientTokens}
    \cup {RefusedBody("Registration refused"),
          ErrorStatus(400, "User with this email already exists"),
          ErrorStatus(500, "Server error during registration"), NetworkError}
LogoutOutcomes ==
  {Ok(NullRef, NullRef), RefusedBody(NullRef), ErrorStatus(401, "Token expired."),
   ErrorStatus(500, "Token verification failed."), NetworkError}
ProfileOutcomes ==
  {Ok(u, NullRef) : u \in ClientUsers}
    \cup {RefusedBody(NullRef), ErrorStatus(401, "Token expired."),
          ErrorStatus(404, "User not found"), NetworkError}

\* response interceptor, case 401: localStorage.removeItem('token')
InterceptStorage(stored, outcome) ==
  IF outcome.kind = "error" /\ outcome.status = 401 THEN NullRef ELSE stored

\* the interceptor leaving the page where it is
InterceptHref_NoReload(path, outcome, assigned) == assigned

\* response interceptor, case 401: window.location.href = '/login' unless
\* the page is /login or /register
InterceptHref(path, outcome, assigned) ==
  IF outcome.kind = "error" /\ outcome.status = 401 /\ path \notin {"/login", "/register"}
  THEN "/login" ELSE assigned

(* --------------------- components and pages (routing) ------------------ *)
\* ProtectedRoute that skips the isLoading test
ProtectedRoute_NoSpinner(st, children) ==
  IF ~st.isAuthenticated THEN "Navigate /login" ELSE children

\* ProtectedRoute: the element it returns
ProtectedRoute(st, children) ==
  IF st.isLoading THEN "LoadingSpinner"
  ELSE IF ~st.isAuthenticated THEN "Navigate /login"
  ELSE children

\* the page App's <Routes> mounts for a path
PageOf(path) ==
  CASE path = "/dashboard" -> "Dashboard"
    [] path = "/tasks" -> "Tasks"
    [] path = "/profile" -> "Profile"
    [] path = "/login" -> "Login"
    [] path = "/register" -> "Register"
    [] OTHER -> "Landing"

\* App: the element rendered for a path and a session state
Rendered(path, st) ==
  IF path \in ProtectedPaths THEN ProtectedRoute(st, PageOf(path))
  ELSE IF st.isLoading /\ path \in {"/login", "/register"} THEN "Spinner"
  ELSE IF st.isAuthenticated /\ ~st.isLoading THEN "Navigate protected"
  ELSE PageOf(path)

\* where the router stands once the <Navigate> elements and the navigate()
\* effects of the rendered page have run: ProtectedRoute sends to /login,
\* Landing and Register to /dashboard, Login to location.state.from or
\* /dashboard
Settle(path, st) ==
  IF Rendered(path, st) = "Navigate /login" THEN {"/login"}
  ELSE IF Rendered(path, st) = "Navigate protected"
  THEN IF path = "/login" THEN ProtectedPaths ELSE {"/dashboard"}
  ELSE {path}

(* --------------------- AuthProvider: the session calls ----------------- *)
\* the page takes the user's input: no other document is being loaded in
\* its place (answers of calls in flight still arrive until it is)
Interactive == href = NullRef

\* useEffect(() => { checkAuth() }, []) up to the verify call
CheckAuthStart ==
  /\ checkAuth.pc = "mount"
  /\ IF localStorage = NullRef
     THEN /\ state' = authReducer(state, SET_LOADING(FALSE))
          /\ checkAuth' = [pc |-> "done", token |-> NullRef]
     ELSE /\ state' = state
          /\ checkAuth' = [pc |-> "verify", token |-> localStorage]
  /\ pathname' \in Settle(pathname, state')
  /\ UNCHANGED <<serverVars, localStorage, href, pending, result>>

\* checkAuth from the answer of authService.verifyToken() on
CheckAuthVerified(outcome) ==
  /\ checkAuth.pc = "verify"
  /\ LET action == IF outcome.kind = "ok"
                   THEN LOGIN_SUCCESS(outcome.user, checkAuth.token)
                   ELSE AUTH_ERROR
     IN /\ state' = authReducer(state, action)
        /\ localStorage' = reducerStorage(InterceptStorage(localStorage, outcome), action)
  /\ href' = InterceptHref(pathname, outcome, href)
  /\ checkAuth' = [pc |-> "done", token |-> NullRef]
  /\ pathname' \in Settle(pathname, state')
  /\ UNCHANGED <<serverVars, pending, result>>

\* the catch branch's message taken from the fallback alone
errorMessage_AlwaysFallback(outcome, fallback) == fallback

\* error.response?.data?.message || fallback
errorMessage(outcome, fallback) ==
  IF outcome.kind = "error" /\ outcome.message # NullRef THEN outcome.message ELSE fallback

\* login / register up to the call: the form is on screen (the page shows a
\* spinner while isLoading) and is not being submitted
AuthCallStart(op, path) ==
  /\ Interactive
  /\ pathname = path
  /\ Rendered(pathname, state) = PageOf(path)
  /\ op \notin pending
  /\ state' = authReducer(state, SET_LOADING(TRUE))
  /\ pending' = pending \cup {op}
  /\ result' = NoResult
  /\ pathname' \in Settle(pathname, state')
  /\ UNCHANGED <<serverVars, localStorage, href, checkAuth>>

\* login / register from the answer of the call on
AuthCallDone(op, outcome, fallback) ==
  /\ op \in pending
  /\ pending' = pending \ {op}
  /\ IF outcome.kind = "ok"
     THEN /\ localStorage' = outcome.token
          /\ state' = authReducer(state, LOGIN_SUCCESS(outcome.user, outcome.token))
          /\ result' = [of |-> op, success |-> TRUE, message |-> NullRef]
     ELSE /\ localStorage' = InterceptStorage(localStorage, outcome)
          /\ state' = authReducer(state, SET_LOADING(FALSE))
          /\ result' = [of |-> op, success |-> FALSE,
                        message |-> IF outcome.kind = "refused" THEN outcome.message
                                    ELSE errorMessage(outcome, fallback)]
  /\ href' = InterceptHref(pathname, outcome, href)
  /\ pathname' \in Settle(pathname, state')
  /\ UNCHANGED <<serverVars, checkAuth>>

Login == AuthCallStart("login", "/login")
LoginDone(outcome) == AuthCallDone("login", outcome, "Login failed. Please try again.")
Register == AuthCallStart("register", "/register")
RegisterDone(outcome) ==
  AuthCallDone("register", outcome, "Registration failed. Please try again.")

\* Navbar's handleLogout: logout up to the call, or to its end when the
\* state holds no token
Logout ==
  /\ Interactive
  /\ state.isAuthenticated
  /\ "logout" \notin pending
  /\ IF state.token # NullRef
     THEN /\ pending' = pending \cup {"logout"}
          /\ UNCHANGED <<state, localStorage>>
     ELSE /\ state' = authReducer(state, LOGOUT)
          /\ localStorage' = reducerStorage(localStorage, LOGOUT)
          /\ UNCHANGED pending
  /\ pathname' \in Settle(pathname, state')
  /\ UNCHANGED <<serverVars, href, checkAuth, result>>

\* logout from the answer of authService.logout() on: the service swallows
\* every error, and the finally block dispatches LOGOUT
LogoutDone(outcome) ==
  /\ "logout" \in pending
  /\ pending' = pending \ {"logout"}
  /\ state' = authReducer(state, LOGOUT)
  /\ localStorage' = reducerStorage(InterceptStorage(localStorage, outcome), LOGOUT)
  /\ href' = InterceptHref(pathname, outcome, href)
  /\ pathname' \in Settle(pathname, state')
  /\ UNCHANGED <<serverVars, checkAuth, result>>

\* Profile's onSubmit up to userService.updateProfile(data)
ProfileSubmit ==
  /\ Interactive
  /\ Rendered(pathname, state) = "Profile"
  /\ "updateProfile" \notin pending
  /\ pending' = pending \cup {"updateProfile"}
  /\ UNCHANGED <<serverVars, localStorage, state, pathname, href, checkAuth, result>>

\* Profile's onSubmit from the answer on: updateUser(response.data.user)
ProfileDone(outcome) ==
  /\ "updateProfile" \in pending
  /\ pending' = pending \ {"updateProfile"}
  /\ state' = IF outcome.kind = "ok" THEN authReducer(state, UPDATE_USER(outcome.user))
              ELSE state
  /\ localStorage' = InterceptStorage(localStorage, outcome)
  /\ href' = InterceptHref(pathname, outcome, href)
  /\ pathname' \in Settle(pathname, state')
  /\ UNCHANGED <<serverVars, checkAuth, result>>

\* forceLogout, which the context hands to every component
ForceLogout ==
  /\ Interactive
  /\ state' = authReducer(state, AUTH_ERROR)
  /\ localStorage' = reducerStorage(localStorage, AUTH_ERROR)
  /\ pathname' \in Settle(pathname, state')
  /\ UNCHANGED <<serverVars, href, checkAuth, pending, result>>

\* the user follows a link of the application to path
GoTo(path) ==
  /\ Interactive
  /\ path # pathname
  /\ pathname' \in Settle(path, state)
  /\ UNCHANGED <<serverVars, localStorage, state, href, checkAuth, pending, result>>

\* the document assigned to window.location.href loads: the page and its
\* calls in flight are gone, localStorage stays
Reload ==
  /\ href # NullRef
  /\ state' = initialState(localStorage)
  /\ pathname' = href
  /\ href' = NullRef
  /\ checkAuth' = Mounting
  /\ pending' = {}
  /\ result' = NoResult
  /\ UNCHANGED <<serverVars, localStorage>>

\* a page loaded at any path with or without a stored token; the server is
\* what answers the calls
InitClient ==
  /\ mongoUp = TRUE
  /\ now = 0
  /\ mongoUsers = Put(EmptyMap, 1, SeedAdmin)
  /\ inMemoryUsers = EmptyMap
  /\ userCounter = FirstCounter
  /\ mongoTasks = EmptyMap
  /\ taskSeq = 0
  /\ inMemoryTasks = EmptyMap
  /\ taskCounter = FirstCounter
  /\ issued = {}
  /\ req = Idle
  /\ racing = Idle
  /\ res = NoResponse
  /\ localStorage \in {NullRef} \cup ClientTokens
  /\ state = initialState(localStorage)
  /\ pathname \in Pathnames
  /\ href = NullRef
  /\ checkAuth = Mounting
  /\ pending = {}
  /\ result = NoResult

NextClient ==
  \/ CheckAuthStart
  \/ \E outcome \in VerifyOutcomes : CheckAuthVerified(outcome)
  \/ Login
  \/ \E outcome \in LoginOutcomes : LoginDone(outcome)
  \/ Register
  \/ \E outcome \in RegisterOutcomes : RegisterDone(outcome)
  \/ Logout
  \/ \E outcome \in LogoutOutcomes : LogoutDone(outcome)
  \/ ProfileSubmit
  \/ \E outcome \in ProfileOutcomes : ProfileDone(outcome)
  \/ \E path \in Pathnames : GoTo(path)
  \/ Reload

SpecClient == InitClient /\ [][NextClient]_vars

\* every call is answered or times out (axios timeout), effects run and
\* an assigned document loads
ClientFairness ==
  /\ WF_vars(CheckAuthStart)
  /\ WF_vars(\E outcome \in VerifyOutcomes : CheckAuthVerified(outcome))
  /\ WF_vars(\E outcome \in LoginOutcomes : LoginDone(outcome))
  /\ WF_vars(\E outcome \in RegisterOutcomes : RegisterDone(outcome))
  /\ WF_vars(\E outcome \in LogoutOutcomes : LogoutDone(outcome))
  /\ WF_vars(\E outcome \in ProfileOutcomes : ProfileDone(outcome))
  /\ WF_vars(Reload)

SpecClientFair == SpecClient /\ ClientFairness

\* the session with every function of the context's value in use
NextSession ==
  \/ NextClient
  \/ ForceLogout

SpecSession == InitClient /\ [][NextSession]_vars

\* two clients registering at the same time
NextRace ==
  \/ Tick
  \/ \E body \in RegisterBodies : RegisterFind(body)
  \/ RegisterCreate
  \/ \E body \in RegisterBodies : SecondRegisterFind(body)
  \/ SecondRegisterCreate

SpecRace == Init /\ [][NextRace]_vars

NextAuth ==
  \/ Tick
  \/ MongoDisconnect
  \/ MongoReconnect
  \/ \E body \in RegisterBodies : RegisterFind(body)
  \/ RegisterCreate
  \/ \E body \in LoginBodies : LoginFind(body)
  \/ LoginSave
  \/ \E h \in Headers : Authenticate(h)
  \/ PostLogout
  \/ GetVerify
  \/ GetMe
  \/ GetProfile
  \/ \E body \in ProfileBodies : PutProfile(body)
  \/ DeleteProfile
  \/ GetUsers

SpecAuth == Init /\ [][NextAuth]_vars

\* Two accounts of the users collection hold fresh tokens: the admin has
\* logged in and Ann has registered, both at time 0 with MongoDB up.
InitTasks ==
  /\ ClientAtRest
  /\ mongoUp \in BOOLEAN
  /\ now = 0
  /\ mongoUsers = Put(Put(EmptyMap, 1, [SeedAdmin EXCEPT !.lastLogin = 0]),
                      2, NewUserDoc(2, [name |-> "Ann", email |-> "ann@x.com",
                                        password |-> "abc123"]))
  /\ inMemoryUsers = EmptyMap
  /\ userCounter = FirstCounter
  /\ mongoTasks = EmptyMap
  /\ taskSeq = 0
  /\ inMemoryTasks = EmptyMap
  /\ taskCounter = FirstCounter
  /\ issued = {generateToken([id |-> ObjectId(1)], 0), generateToken([id |-> ObjectId(2)], 0)}
  /\ req = Idle
  /\ racing = Idle
  /\ res = NoResponse

NextTasks ==
  \/ Tick
  \/ MongoDisconnect
  \/ MongoReconnect
  \/ \E h \in Headers : Authenticate(h)
  \/ \E body \in CreateBodies : PostTask(body)
  \/ \E taskId \in TaskIdParams : GetTask(taskId)
  \/ \E taskId \in TaskIdParams, body \in UpdateBodies : PutTask(taskId, body)
  \/ \E taskId \in TaskIdParams : DeleteTask(taskId)
  \/ GetStats

SpecTasks == InitTasks /\ [][NextTasks]_vars

\* accounts that own tasks and deactivate themselves
NextDeactivate ==
  \/ MongoDisconnect
  \/ MongoReconnect
  \/ \E h \in Headers : Authenticate(h)
  \/ \E body \in CreateBodies : PostTask(body)
  \/ DeleteProfile
  \/ GetStats

SpecDeactivate == InitTasks /\ [][NextDeactivate]_vars

\* the lists findUserTasks can return to the request in flight
ListsFor(query) ==
  IF AtHandler THEN UserTaskLists(req.user.id, QueryFilter(query)) ELSE {}

\* request bodies of POST /tasks that give the lists both statuses
ListBodies == {body \in CreateBodies : Has(body, "status") => body.status = "completed"}

NextList ==
  \/ Tick
  \/ MongoDisconnect
  \/ MongoReconnect
  \/ \E h \in Headers : Authenticate(h)
  \/ \E body \in ListBodies : PostTask(body)
  \/ \E query \in TaskQueries : \E tasks \in ListsFor(query) : GetTasks(query, tasks)

SpecList == InitTasks /\ [][NextList]_vars

\* one body that passes and the bodies that fail each schema
CheckedRegisterBodies == {body \in RegisterBodies : body.email = "ann@x.com"}
CheckedLoginBodies ==
  {body \in LoginBodies : body.password = "abc123" /\ body.email \in {"root@x.com", BadEmail}}
CheckedCreateBodies == {body \in CreateBodies : Has(body, "status") => body.status = BadStatus}
CheckedUpdateBodies ==
  {body \in UpdateBodies : Has(body, "status") /\ body.status \in {"completed", BadStatus}}

\* the routes behind validate(schema)
NextValidate ==
  \/ MongoDisconnect
  \/ MongoReconnect
  \/ \E body \in CheckedRegisterBodies : RegisterFind(body)
  \/ RegisterCreate
  \/ \E body \in CheckedLoginBodies : LoginFind(body)
  \/ LoginSave
  \/ \E h \in Headers : Authenticate(h)
  \/ \E body \in ProfileBodies : PutProfile(body)
  \/ \E body \in CheckedCreateBodies : PostTask(body)
  \/ \E taskId \in TaskIdParams, body \in CheckedUpdateBodies : PutTask(taskId, body)

SpecValidate == Init /\ [][NextValidate]_vars

(* ============================== claims ================================= *)
AllTasks ==
  {mongoTasks[n] : n \in DOMAIN mongoTasks} \cup {inMemoryTasks[k] : k \in DOMAIN inMemoryTasks}
AllUsers ==
  {mongoUsers[n] : n \in DOMAIN mongoUsers} \cup {inMemoryUsers[k] : k \in DOMAIN inMemoryUsers}

CompletedAtSet(task) == Has(task, "completedAt") /\ task.completedAt # NULL
IsCompleted(task) == Has(task, "status") /\ task.status = "completed"

\* C1: every task of either backend has a non-null completedAt exactly when
\* its status is 'completed', after any successful create or update.
C1_CompletedAtIffCompleted ==
  \A task \in AllTasks : CompletedAtSet(task) <=> IsCompleted(task)

TaskIdRoutes == {"tasks.get", "tasks.put", "tasks.delete"}
OwnedBy(taskId, userId) == \E task \in AllTasks : task._id = taskId /\ task.user = userId
Exists(taskId) == \E task \in AllTasks : task._id = taskId

\* C2: GET, PUT and DELETE /tasks/:id on an id the caller does not own (a
\* task of another user or no task at all) answer 404 'Task not found' with
\* no task in the body, and leave the task stores as they were.
C2_ForeignTaskIsNotFound ==
  [][(/\ AtHandler
      /\ res'.route \in TaskIdRoutes
      /\ res'.by = "handler"
      /\ ~OwnedBy(res'.id, req.user.id))
     => (/\ res' = NotFound(res'.route, res'.id)
         /\ ~Has(res', "task")
         /\ taskStores' = taskStores)]_vars

\* C2 witness: a PUT on a task of another user was answered.
C2_Witness ==
  /\ res.route = "tasks.put"
  /\ res.by = "handler"
  /\ Exists(res.id)
  /\ ~OwnedBy(res.id, res.caller)

\* C3: authenticate calls next only for a Bearer header whose token has a
\* valid signature and is unexpired and whose id names an active user of
\* the credential store; req.user is then {id, email, name, role} of that
\* user, and of no other.
C3_NextOnlyForActiveUser ==
  [][(req.stage = "idle" /\ req'.stage = "handler")
     => (/\ req'.header.present /\ req'.header.bearer
         /\ req'.header.token.sig = "valid"
         /\ now < req'.header.token.exp
         /\ \E n \in DOMAIN mongoUsers :
              /\ mongoUsers[n]._id = req'.header.token.id
              /\ mongoUsers[n].isActive
              /\ req'.user = [id |-> mongoUsers[n]._id, email |-> mongoUsers[n].email,
                              name |-> mongoUsers[n].name, role |-> mongoUsers[n].role]
              /\ \A m \in DOMAIN mongoUsers \ {n} : mongoUsers[m]._id # req'.user.id)]_vars

\* C3 witness: a request has passed authenticate, with a second account
\* in the credential store.
C3_Witness ==
  /\ req.stage = "handler"
  /\ Cardinality(DOMAIN mongoUsers) > 1

IssuesToken(r) == r.route \in {"login", "register"} /\ r.status \in {200, 201}

\* C4: a token returned by a successful login or register passes
\* authenticate right after issuance, whichever backend holds the user, and
\* every issued token is refused with 401 'Token expired.' once its expiry
\* has passed.
C4_IssuedTokenVerifies ==
  [][/\ (res' # res /\ IssuesToken(res'))
        => authenticate(Bearer(res'.token), mongoUp', mongoUsers', now').next
     /\ \A t \in issued' :
          now' >= t.exp => authenticate(Bearer(t), mongoUp', mongoUsers', now')
                             = Refused(401, "Token expired.")]_vars

UsersWithEmail(email) == {u \in AllUsers : u.email = ToLowerCase(email)}

\* C5: the credential store holds at most one user per lower-cased email
\* across both backends; a register for an email that is already taken
\* answers 400 'User with this email already exists', creates no user and
\* issues no token.
C5_OneUserPerEmail ==
  [][/\ \A e \in Emails :
          Cardinality({n \in DOMAIN mongoUsers' : mongoUsers'[n].email = ToLowerCase(e)})
            + Cardinality({k \in DOMAIN inMemoryUsers' : k = ToLowerCase(e)}) <= 1
     /\ (res' # res /\ res'.route = "register" /\ res'.status # 400)
          => UsersWithEmail(res'.sent.email) = {}]_vars

\* the accounts POST /auth/register created for these credentials
Registered(body) ==
  {u \in UsersWithEmail(body.email) :
     u.role = "user" /\ u.isActive /\ BcryptCompare(body.password, u.password)}

\* C6: once register has returned 201 for (email, password), a login with
\* the same email and password answers 200 with a token for that user id,
\* whichever backend served the registration, unless the account has been
\* deactivated.
C6_RegisteredCanLogin ==
  (res.route = "login" /\ Registered(res.sent) # {})
    => (/\ res.status = 200
        /\ \E u \in Registered(res.sent) : res.token.id = u._id)

\* C7: no response body carries a user's password or password hash.
C7_NoPasswordInResponse ==
  /\ Has(res, "user") => ~Has(res.user, "password")
  /\ Has(res, "users") => \A u \in res.users : ~Has(u, "password")

\* C7 witness: register answered 201 with the user the in-memory backend
\* stored.
C7_Witness ==
  /\ res.route = "register"
  /\ res.status = 201
  /\ res.user._id.t = "number"

\* the step in which the handler of POST /login answers without reaching
\* user.save()
LoginAnswered ==
  req.stage = "idle" /\ res' # res /\ res'.route = "login" /\ ~Has(res', "by")
\* the account the request's email resolves to, and a password that does
\* not match its hash
Mismatch(body) ==
  LET found == findUserByEmail(body.email)
  IN found.src # "none" /\ ~BcryptCompare(body.password, FoundUser(found).password)
Unknown(body) == findUserByEmail(body.email).src = "none"
Deactivated(body) ==
  LET found == findUserByEmail(body.email)
  IN found.src # "none" /\ ~FoundUser(found).isActive

\* C8 as stated: a login with a password that does not match the account's
\* hash answers 401 'Invalid email or password', issues no token and does
\* not update lastLogin, whatever the account state, and an unknown email
\* gets the same response.
C8_WrongPasswordSameMessage ==
  [][(LoginAnswered /\ (Mismatch(res'.sent) \/ Unknown(res'.sent)))
     => (/\ res'.status = 401
         /\ res'.message = "Invalid email or password"
         /\ ~Has(res', "token")
         /\ issued' = issued
         /\ userStores' = userStores)]_vars

\* C8 amended: such a login answers 401, issues no token and does not update
\* lastLogin, whatever the account state; the message is 'Invalid email or
\* password' for an active account and for an unknown email, and 'Account is
\* deactivated' for a deactivated account.
C8_WrongPasswordRefused ==
  [][(LoginAnswered /\ (Mismatch(res'.sent) \/ Unknown(res'.sent)))
     => (/\ res'.status = 401
         /\ res'.message = IF Deactivated(res'.sent) THEN "Account is deactivated"
                            ELSE "Invalid email or password"
         /\ ~Has(res', "token")
         /\ issued' = issued
         /\ userStores' = userStores)]_vars

\* C8 witness: a login with a wrong password for an active account was
\* refused.
C8_Witness ==
  /\ res.route = "login"
  /\ res.status = 401
  /\ \E u \in UsersWithEmail(res.sent.email) :
       u.isActive /\ ~BcryptCompare(res.sent.password, u.password)

\* C9: every refusal of authenticate is a 401, the credential store being
\* unreachable included.
C9_RefusalIs401 ==
  (Has(res, "by") /\ res.by = "authenticate") => res.status = 401

\* C10: the statistics satisfy completed + inProgress + pending = total,
\* total is the number of the caller's tasks, and completionRate is
\* round(100 * completed / total), or 0 for no tasks.
C10_StatsAddUp ==
  (res.route = "tasks.stats" /\ res.status = 200)
    => LET st == res.stats
           mine == {task \in AllTasks : task.user = res.caller}
       IN /\ st.completed + st.inProgress + st.pending = st.total
          /\ st.total = Cardinality(mine)
          /\ st.completionRate =
               IF st.total = 0 THEN 0 ELSE MathRound(100 * st.completed, st.total)

TitleOnly == [title |-> "Write spec"]
HasDefaults(task) ==
  /\ Has(task, "status") /\ task.status = "pending"
  /\ Has(task, "priority") /\ task.priority = "medium"

\* C11: a POST /tasks whose body holds only a title answers 201 with a task
\* of status 'pending' and priority 'medium', and the record it stored has
\* them too, whichever backend stored it.
C11_TitleOnlyGetsDefaults ==
  [][PostTask(TitleOnly)
     => (/\ res'.status = 201
         /\ HasDefaults(res'.task)
         /\ \A task \in AllTasks' : task._id = res'.task._id => HasDefaults(task))]_vars

Elements(L) == {L[i] : i \in DOMAIN L}
Descending(L) == \A i, j \in DOMAIN L : i < j => L[i].createdAt >= L[j].createdAt

\* C12: GET /tasks with status=s finds exactly the caller's tasks of status
\* s, on either backend: the returned tasks are among them, none is left out
\* before pagination, and they come in descending createdAt.
C12_StatusFilterExact ==
  [][\A query \in TaskQueries :
       (query.status # "" /\ AtHandler
          /\ \E tasks \in UserTaskLists(req.user.id, QueryFilter(query)) :
               GetTasks(query, tasks))
       => LET mine == {task \in AllTasks :
                         /\ task.user = req.user.id
                         /\ Has(task, "status") /\ task.status = query.status}
          IN /\ Elements(res'.tasks) \subseteq mine
             /\ res'.pagination.totalTasks = Cardinality(mine)
             /\ Descending(res'.tasks)]_vars

RECURSIVE ConcatPages(_, _, _, _)
\* pages p..total of L, one after the other
ConcatPages(L, n, p, total) ==
  IF p > total THEN <<>>
  ELSE Slice(L, (p - 1) * n, p * n) \o ConcatPages(L, n, p + 1, total)

\* C13: for page p >= 1 and limit n >= 1 over the filtered, sorted list L the
\* response holds L[(p-1)*n .. p*n), count is their number and at most n,
\* totalTasks is |L|, total is ceil(|L| / n), current is p, and pages
\* 1..total one after the other are L.
C13_PageIsSliceOfList ==
  [][\A query \in TaskQueries :
       AtHandler =>
         \A L \in UserTaskLists(req.user.id, QueryFilter(query)) :
           GetTasks(query, L)
           => LET p == query.page
                  n == query.limit
                  rest == Len(L) - (p - 1) * n
                  count == IF rest <= 0 THEN 0 ELSE IF rest < n THEN rest ELSE n
                  pg == res'.pagination
              IN /\ res'.tasks = [i \in 1..count |-> L[(p - 1) * n + i]]
                 /\ pg.count = count /\ pg.count <= n
                 /\ pg.totalTasks = Len(L)
                 /\ pg.total * n >= Len(L) /\ (pg.total - 1) * n < Len(L)
                 /\ pg.total >= 0
                 /\ pg.current = p
                 /\ ConcatPages(L, n, 1, pg.total) = L]_vars

\* C13 witness: the second page of a list of two tasks at one task a page.
C13_Witness ==
  /\ res.route = "tasks.list"
  /\ res.pagination.current = 2
  /\ res.pagination.total = 2
  /\ res.pagination.count = 1

\* C14: a request that passed authenticate with a role outside the allowed
\* set of a role-gated route is answered 403 by authorize and the handler
\* does not run; GET /users returns the user list only to role 'admin'.
C14_RoleGateForbids ==
  [][(AtHandler /\ res'.route = "users.list")
     => IF req.user.role = "admin"
        THEN res'.status = 200 /\ Has(res', "users")
        ELSE /\ res'.status = 403
             /\ res'.by = "authorize"
             /\ ~Has(res', "users")
             /\ stores' = stores]_vars

\* C14 witness: GET /users of a caller of role 'user' was answered 403.
C14_Witness ==
  /\ res.route = "users.list"
  /\ res.status = 403
  /\ \E u \in AllUsers : u._id = res.caller /\ u.role = "user"

Unauthenticated ==
  [user |-> NullRef, token |-> NullRef, isLoading |-> FALSE, isAuthenticated |-> FALSE]
Authenticated(user, token) ==
  [user |-> user, token |-> token, isLoading |-> FALSE, isAuthenticated |-> TRUE]

\* C15: at startup with a stored token the session is loading until the
\* verify call returns; a successful verify makes it authenticated with the
\* returned user and the stored token, any failure removes the stored token
\* and makes it unauthenticated; with no stored token it becomes
\* unauthenticated with no call made; and a session waiting for the verify
\* call comes out of loading.
C15_StartupSettlesSession ==
  /\ [][(checkAuth.pc = "mount" /\ checkAuth'.pc # "mount")
        => IF localStorage = NullRef
           THEN state' = Unauthenticated /\ checkAuth'.pc = "done" /\ pending' = pending
           ELSE checkAuth'.pc = "verify"]_vars
  /\ [](checkAuth.pc = "verify" => state.isLoading /\ ~state.isAuthenticated)
  /\ [][\A outcome \in VerifyOutcomes :
          CheckAuthVerified(outcome)
          => IF outcome.kind = "ok"
             THEN /\ state' = Authenticated(outcome.user, localStorage)
                  /\ localStorage' = localStorage /\ localStorage # NullRef
             ELSE /\ localStorage' = NullRef
                  /\ state' = Unauthenticated]_vars
  /\ (checkAuth.pc = "verify") ~> (checkAuth.pc = "done" /\ ~state.isLoading)

\* C15 witness: the verify call of startup succeeded for the stored token.
C15_Witness ==
  /\ checkAuth.pc = "done"
  /\ state.isAuthenticated
  /\ state.token = localStorage
  /\ result = NoResult

\* the message of the server's answer, if it has one
ServerMessage(outcome) ==
  IF outcome.kind \in {"refused", "error"} THEN outcome.message ELSE NullRef

\* what C16 says of the step in which login or register gets its answer
AuthCallEnds(op, outcome) ==
  IF outcome.kind = "ok"
  THEN /\ localStorage' = outcome.token
       /\ state' = Authenticated(outcome.user, outcome.token)
       /\ result' = [of |-> op, success |-> TRUE, message |-> NullRef]
  ELSE /\ localStorage' \in {localStorage, NullRef}
       /\ state'.isAuthenticated = FALSE /\ state'.isLoading = FALSE
       /\ result'.of = op /\ result'.success = FALSE
       /\ ServerMessage(outcome) # NullRef => result'.message = ServerMessage(outcome)

\* C16: when login or register is answered with success, the returned token
\* is in localStorage and the session is authenticated with the returned
\* user and token; when it fails (error response or success false) nothing
\* is written to localStorage, the session is unauthenticated and not
\* loading, and the result carries the server's message.
C16_LoginRegisterOutcome ==
  [][/\ \A outcome \in LoginOutcomes :
          LoginDone(outcome) => AuthCallEnds("login", outcome)
     /\ \A outcome \in RegisterOutcomes :
          RegisterDone(outcome) => AuthCallEnds("register", outcome)]_vars

\* C16 witness: a login was refused by the server with its message.
C16_Witness ==
  /\ result.of = "login"
  /\ ~result.success
  /\ result.message = "Account is deactivated"

LoggedOut == localStorage = NullRef /\ state = Unauthenticated

C18_ProtectedPagesNeedSession ==
  /\ [](pathname \in ProtectedPaths
          => \/ state.isLoading /\ Rendered(pathname, state) = "LoadingSpinner"
             \/ /\ state.isAuthenticated /\ ~state.isLoading
                /\ Rendered(pathname, state) = PageOf(pathname))
  /\ [](Rendered(pathname, state) \in {"Dashboard", "Tasks", "Profile"}
          => state.isAuthenticated /\ ~state.isLoading)
  /\ [][(pathname \in ProtectedPaths /\ ~state'.isLoading /\ ~state'.isAuthenticated)
        => pathname' = "/login"]_vars

\* C18 witness: a protected page is rendered after a login.
C18_Witness ==
  /\ Rendered(pathname, state) = "Profile"
  /\ result.of = "login"

\* the answer of validate(schema) to a body that fails the schema: 400 with
\* a non-empty list of errors, before the handler, with nothing changed
RejectedAtBoundary ==
  /\ res'.status = 400
  /\ res'.message = "Validation error"
  /\ Has(res', "errors") /\ Len(res'.errors) > 0
  /\ res'.by = "validate"
  /\ req' = Idle
  /\ stores' = stores
  /\ issued' = issued

\* C19: a register, login, profile update, task create or task update whose
\* body fails its schema (password too short, malformed email, name of one
\* character, no title, status outside the enum) is answered 400 with a
\* non-empty errors list, before the handler, and both backends of the user
\* store and of the task store stay as they were.
C19_InvalidBodyRejected ==
  [][/\ \A body \in RegisterBodies :
          (body.password = BadPassword /\ RegisterFind(body)) => RejectedAtBoundary
     /\ \A body \in LoginBodies :
          (body.email = BadEmail /\ LoginFind(body)) => RejectedAtBoundary
     /\ \A body \in ProfileBodies :
          (Has(body, "name") /\ body.name = "A" /\ PutProfile(body)) => RejectedAtBoundary
     /\ \A body \in CreateBodies :
          ((~Has(body, "title") \/ (Has(body, "status") /\ body.status = BadStatus))
             /\ PostTask(body)) => RejectedAtBoundary
     /\ \A taskId \in TaskIdParams : \A body \in UpdateBodies :
          (Has(body, "status") /\ body.status = BadStatus /\ PutTask(taskId, body))
            => RejectedAtBoundary]_vars

\* C19 witness: an update of a stored task with a status outside the enum
\* was answered 400 by validate.
C19_Witness ==
  /\ res.route = "tasks.put"
  /\ res.status = 400
  /\ res.by = "validate"
  /\ AllTasks # {}

\* the users DELETE /users/profile has answered 200 for
DeactivatedUsers == {u \in AllUsers : ~u.isActive}

\* C20: once DELETE /users/profile has succeeded for a user, every request
\* carrying a token of that user is refused by authenticate with 401 and
\* every login with that user's email is refused with 401, whichever
\* backend holds the record and whether or not MongoDB answers.
C20_DeactivatedIsLockedOut ==
  [][/\ \A h \in Headers :
          ((\E u \in DeactivatedUsers : h.bearer /\ h.token.id = u._id) /\ Authenticate(h))
          => (req' = Idle /\ res'.by = "authenticate" /\ res'.status = 401)
     /\ \A body \in LoginBodies :
          ((\E u \in DeactivatedUsers : u.email = ToLowerCase(body.email)) /\ LoginFind(body))
          => (req' = Idle /\ res'.route = "login" /\ res'.status = 401)]_vars


\* C21: no response is a 500: when MongoDB raises an error the operation is
\* carried out on the in-memory map (the collections stay as they were) and
\* the request is answered with its result.
C21_BackendErrorNever500 ==
  [][/\ res' # res => res'.status # 500
     /\ (~mongoUp /\ req.stage # "idle" /\ req'.stage = "idle")
          => (mongoUsers' = mongoUsers /\ mongoTasks' = mongoTasks)]_vars


\* the users a backend holds: the collection while MongoDB answers, the Map
\* that register's fallback wrote to while it does not
StoredOn(up) ==
  IF up THEN {mongoUsers[n] : n \in DOMAIN mongoUsers}
  ELSE {inMemoryUsers[k] : k \in DOMAIN inMemoryUsers}

\* C22: a user register stored is, on the backend that stored it, the one
\* find-by-id returns and update changes, and is in the active-user list
\* GET /users returns while it is active; so for the in-memory backend.
C22_OneStorePerBackend ==
  /\ [](\A u \in StoredOn(mongoUp) :
          /\ findUserById(u._id) = {u}
          /\ updateUserResult(u._id, [name |-> "Ann B"]) # {})
  /\ [][(AtHandler /\ res'.route = "users.list" /\ res'.status = 200)
        => \A u \in StoredOn(mongoUp) : u.isActive => Without(u, "password") \in res'.users]_vars


\* the fields of a task no request body may set
ServerSetFields == {"user", "_id", "completedAt"}
SetsServerField(body) == DOMAIN body \cap ServerSetFields # {}
\* the task keeps its owner and its id
SameIdentity(before, after) == after.user = before.user /\ after._id = before._id

\* C23: a task's owner and id never change after creation; the owner of a
\* new task is the authenticated caller of the POST /tasks that created it
\* and its id the one the store generated; and a create or update body that
\* names user, _id or completedAt is refused with the task stores unchanged.
C23_OwnerNeverChanges ==
  [][/\ \A n \in DOMAIN mongoTasks \cap DOMAIN mongoTasks' :
          SameIdentity(mongoTasks[n], mongoTasks'[n])
     /\ \A k \in DOMAIN inMemoryTasks \cap DOMAIN inMemoryTasks' :
          SameIdentity(inMemoryTasks[k], inMemoryTasks'[k])
     /\ \A n \in DOMAIN mongoTasks' \ DOMAIN mongoTasks :
          /\ AtHandler /\ res'.route = "tasks.post"
          /\ mongoTasks'[n].user = req.user.id /\ mongoTasks'[n]._id = ObjectId(n)
     /\ \A k \in DOMAIN inMemoryTasks' \ DOMAIN inMemoryTasks :
          /\ AtHandler /\ res'.route = "tasks.post"
          /\ inMemoryTasks'[k].user = req.user.id /\ inMemoryTasks'[k]._id = Number(k)
     /\ \A body \in CreateBodies :
          (SetsServerField(body) /\ PostTask(body))
          => (res'.status = 400 /\ taskStores' = taskStores)
     /\ \A taskId \in TaskIdParams : \A body \in UpdateBodies :
          (SetsServerField(body) /\ PutTask(taskId, body))
          => (res'.status = 400 /\ taskStores' = taskStores)]_vars

\* C23 witness: with tasks of two owners stored, an update of one of them
\* was answered 200.
C23_Witness ==
  /\ res.route = "tasks.put"
  /\ res.status = 200
  /\ res.task.user = res.caller
  /\ \E task \in AllTasks : task.user # res.caller


\* C24: DELETE /users/profile changes nothing but the active flag of the
\* caller's record: every other user record and both task stores stay as
\* they were, so no task of the deactivated user is deleted or modified.
C24_DeactivationKeepsTasks ==
  [][DeleteProfile
     => (/\ taskStores' = taskStores
         /\ inMemoryUsers' = inMemoryUsers /\ userCounter' = userCounter
         /\ DOMAIN mongoUsers' = DOMAIN mongoUsers
         /\ \A n \in DOMAIN mongoUsers :
              /\ Without(mongoUsers'[n], "isActive") = Without(mongoUsers[n], "isActive")
              /\ mongoUsers[n]._id # req.user.id => mongoUsers'[n] = mongoUsers[n]
         /\ res'.status = 200 => \E n \in DOMAIN mongoUsers' :
                                   mongoUsers'[n]._id = req.user.id /\ ~mongoUsers'[n].isActive)]_vars

\* C24 witness: an account that owns a task has been deactivated.
C24_Witness ==
  /\ res.route = "profile.delete"
  /\ res.status = 200
  /\ \E task \in AllTasks : task.user = res.caller
  /\ \E u \in AllUsers : u._id = res.caller /\ ~u.isActive


\* C25: POST /auth/logout changes no server state, and a token of the user
\* who logged out still passes authenticate afterwards as long as it has
\* not expired and the user's record is there and active.
C25_LogoutRevokesNothing ==
  [][/\ PostLogout
          => (stores' = stores /\ issued' = issued /\ mongoUp' = mongoUp /\ now' = now)
     /\ \A h \in Headers :
          (/\ res.route = "logout"
           /\ h.bearer /\ h.token.sig = "valid" /\ h.token.id = res.caller
           /\ now < h.token.exp
           /\ \E u \in AllUsers : u._id = res.caller /\ u.isActive
           /\ Authenticate(h))
          => req'.stage = "handler"]_vars


\* C26: the session is unauthenticated (isLoading and isAuthenticated both
\* false), loading (isLoading alone) or authenticated (isAuthenticated
\* alone): after any sequence of checkAuth, login, register, logout,
\* updateUser and forceLogout the two flags are never both true.
C26_NeverLoadingAndAuthenticated ==
  ~(state.isLoading /\ state.isAuthenticated)

\* C26 witness: a register has authenticated the session.
C26_Witness ==
  /\ state.isAuthenticated
  /\ ~state.isLoading
  /\ result.of = "register"
  /\ result.success


\* the records POST /register has created for an email, on both backends
CreatedFor(email) == {u \in AllUsers : u.email = ToLowerCase(email) /\ u # SeedAdmin}

\* C27: of two POST /register for one email (case-insensitively) in flight
\* together, interleaved at the awaits of the handler, at most one is
\* answered 201 (no 201 follows the 201 of the other for the same email),
\* register has created at most one record for the email, and every token
\* issued names the id of a stored user.
C27_ConcurrentRegisterOnce ==
  [][/\ ~(/\ res.route = "register" /\ res.status = 201
          /\ res'.route = "register" /\ res'.status = 201
          /\ res' # res
          /\ ToLowerCase(res'.sent.email) = ToLowerCase(res.sent.email))
     /\ \A e \in Emails : Cardinality(CreatedFor(e)') <= 1
     /\ \A t \in issued' : \E u \in AllUsers' : u._id = t.id]_vars


\* C28: in the session state isAuthenticated implies that user and token
\* are both non-null, and a state that is neither authenticated nor loading
\* holds no user and no token, after any sequence of reducer actions, the
\* UPDATE_USER of a profile update that completes after a logout included.
C28_UserAndTokenFollowSession ==
  /\ state.isAuthenticated => (state.user # NullRef /\ state.token # NullRef)
  /\ (~state.isAuthenticated /\ ~state.isLoading)
       => (state.user = NullRef /\ state.token = NullRef)


\* an authenticated session whose stored token is gone
TokenDropped == state.isAuthenticated /\ localStorage = NullRef

\* C29 as stated: whenever the session is authenticated localStorage holds
\* the token of the session state, and an authenticated session whose token
\* a 401 removed from localStorage leaves the authenticated state.
C29_StorageAlwaysMatches ==
  /\ [](state.isAuthenticated => localStorage = state.token)
  /\ TokenDropped ~> ~state.isAuthenticated

\* C29 amended: while no 401 has put another document in the page's place,
\* an authenticated session has its token in localStorage, so the calls it
\* sends carry that token; a 401 that removes the token from under an
\* authenticated session assigns window.location.href, and the session
\* leaves the authenticated state when that document loads.
C29_StorageMatchesUntil401 ==
  /\ [](state.isAuthenticated /\ href = NullRef
          => localStorage = state.token /\ localStorage # NullRef)
  /\ [][(state.isAuthenticated /\ pending' # pending /\ pending \subseteq pending')
        => localStorage = state.token /\ localStorage # NullRef]_vars
  /\ [][(~TokenDropped /\ TokenDropped') => href' = "/login"]_vars
  /\ TokenDropped ~> ~state.isAuthenticated

\* C29 witness: a 401 has removed the token of an authenticated session
\* that has calls in flight.
C29_Witness ==
  /\ TokenDropped
  /\ href = "/login"
  /\ pending # {}


\* the ids the stores generated for tasks that are no longer stored
DeletedIds ==
  {ObjectId(n) : n \in {m \in 1..taskSeq : m \notin DOMAIN mongoTasks}}
    \cup {Number(k) : k \in {j \in FirstCounter..(taskCounter - 1) : j \notin DOMAIN inMemoryTasks}}
\* every stored task but the one named is in the store as it was, and no
\* task has been added
OthersUntouched(taskId) ==
  /\ DOMAIN mongoTasks' \subseteq DOMAIN mongoTasks
  /\ DOMAIN inMemoryTasks' \subseteq DOMAIN inMemoryTasks
  /\ \A n \in DOMAIN mongoTasks :
       mongoTasks[n]._id # taskId => (n \in DOMAIN mongoTasks' /\ mongoTasks'[n] = mongoTasks[n])
  /\ \A k \in DOMAIN inMemoryTasks :
       inMemoryTasks[k]._id # taskId
         => (k \in DOMAIN inMemoryTasks' /\ inMemoryTasks'[k] = inMemoryTasks[k])
TaskFilters == {EmptyMap, [status |-> "pending"], [status |-> "completed"]}

\* C30: an update or delete of task T answered 200 changes or removes T
\* alone, every other task of any owner staying as it was; one answered 404
\* leaves the task stores unchanged; and once T is deleted every get, update
\* and delete of its id is answered 404 and T is in no list and counted in
\* no statistic.
C30_OnlyTheNamedTaskChanges ==
  [][/\ (AtHandler /\ res'.route \in {"tasks.put", "tasks.delete"} /\ res'.status = 200)
          => (/\ OthersUntouched(res'.id)
              /\ Exists(res'.id)
              /\ (\E task \in AllTasks' : task._id = res'.id) <=> res'.route = "tasks.put")
     /\ (AtHandler /\ res'.route \in {"tasks.put", "tasks.delete"} /\ res'.status = 404)
          => taskStores' = taskStores
     /\ (AtHandler /\ res'.route \in TaskIdRoutes /\ res'.by = "handler"
           /\ res'.id \in DeletedIds)
          => res'.status = 404
     /\ AtHandler
          => (/\ \A filter \in TaskFilters :
                   \A L \in UserTaskLists(req.user.id, filter) :
                     \A i \in DOMAIN L : L[i]._id \notin DeletedIds
              /\ \A task \in findUserTasks(req.user.id) : task._id \notin DeletedIds)
     /\ (AtHandler /\ res'.route = "tasks.stats")
          => res'.stats.total <= Cardinality({task \in AllTasks : task.user = req.user.id})]_vars

\* C30 witness: a get of a deleted task's id was answered 404 while another
\* task is still stored.
C30_Witness ==
  /\ res.route = "tasks.get"
  /\ res.status = 404
  /\ res.id \in DeletedIds
  /\ AllTasks # {}
====
